---------------------------- MODULE Spec2Model ----------------------------
(***************************************************************************)
(* Model of backend/src/utils/mod.rs: the helper routines of the backend   *)
(* (ObjectId (de)serialisation, password hashing and verification,         *)
(* duplicate-key error translation, SKU generation, user-id extraction     *)
(* from the JWT cookie).                                                   *)
(*                                                                         *)
(* Every call runs on a thread.  A thread record holds the function being  *)
(* executed, its argument, its local variables, the library operations it  *)
(* has performed so far and its result; one action models one step of one  *)
(* function.  Text is modelled as a sequence of one-character strings.     *)
(***************************************************************************)
EXTENDS Integers, Sequences, FiniteSets, TLC

VARIABLES th, now, logger, access

vars == <<th, now, logger, access>>

(***************************************************************************)
(* Bounds of the model.                                                    *)
(***************************************************************************)
NThreads == 2
MaxClock == 2
NumByteSamples == 2
MaxFrags == 3
NumSalts == 2

Threads == 1..NThreads

(***************************************************************************)
(* Option and Result values.                                               *)
(***************************************************************************)
None == [tag |-> "None"]
Some(v) == [tag |-> "Some", val |-> v]
Ok(v) == [tag |-> "Ok", val |-> v]
Err(e) == [tag |-> "Err", err |-> e]

(***************************************************************************)
(* Text helpers.                                                           *)
(***************************************************************************)
LowerAlpha == <<"a","b","c","d","e","f","g","h","i","j","k","l","m",
                "n","o","p","q","r","s","t","u","v","w","x","y","z">>
UpperAlpha == <<"A","B","C","D","E","F","G","H","I","J","K","L","M",
                "N","O","P","Q","R","S","T","U","V","W","X","Y","Z">>
Digits == <<"0","1","2","3","4","5","6","7","8","9">>

Range(s) == {s[i] : i \in DOMAIN s}

IndexOf(s, c) == CHOOSE i \in DOMAIN s : s[i] = c

\* char::to_ascii_uppercase / to_uppercase on one ASCII character
UpperChar(c) == IF c \in Range(LowerAlpha) THEN UpperAlpha[IndexOf(LowerAlpha, c)] ELSE c

\* char::to_lowercase on one ASCII character
LowerChar(c) == IF c \in Range(UpperAlpha) THEN LowerAlpha[IndexOf(UpperAlpha, c)] ELSE c

to_uppercase(s) == [i \in DOMAIN s |-> UpperChar(s[i])]

to_lowercase(s) == [i \in DOMAIN s |-> LowerChar(s[i])]

RECURSIVE Concat(_)
Concat(ss) == IF ss = <<>> THEN <<>> ELSE Head(ss) \o Concat(Tail(ss))

(***************************************************************************)
(* bson::oid::ObjectId: twelve bytes; to_hex and parse_str.                *)
(***************************************************************************)
OidLen == 12

HexLower == <<"0","1","2","3","4","5","6","7","8","9","a","b","c","d","e","f">>

\* ObjectId::to_hex: two lowercase hex digits per byte
to_hex(id) ==
    Concat([i \in DOMAIN id |->
        <<HexLower[(id[i] \div 16) + 1], HexLower[(id[i] % 16) + 1]>>])

\* the value of one hex digit, either case; -1 for any other character
hex_val(c) ==
    IF LowerChar(c) \in Range(HexLower) THEN IndexOf(HexLower, LowerChar(c)) - 1 ELSE -1

\* hex::decode: an odd length or a non-hex character is an error
hex_decode(s) ==
    IF Len(s) % 2 # 0 THEN Err("OddLength")
    ELSE IF \E i \in DOMAIN s : hex_val(s[i]) = -1 THEN Err("InvalidHexCharacter")
    ELSE Ok([i \in 1..(Len(s) \div 2) |-> 16 * hex_val(s[2 * i - 1]) + hex_val(s[2 * i])])

\* ObjectId::parse_str: hex-decode, then require exactly twelve bytes
parse_str(s) ==
    LET bytes == hex_decode(s)
    IN  IF bytes.tag = "Err"
        THEN Err(IF bytes.err = "OddLength" THEN "InvalidHexStringLength"
                 ELSE "InvalidHexStringCharacter")
        ELSE IF Len(bytes.val) # OidLen THEN Err("InvalidHexStringLength")
        ELSE Ok(bytes.val)

\* Result::ok
ResultOk(r) == IF r.tag = "Ok" THEN Some(r.val) ELSE None

(***************************************************************************)
(* serde::Serializer: what a serializer is asked to emit.                  *)
(***************************************************************************)
serialize_str(s) == [tag |-> "str", val |-> s]
serialize_none == [tag |-> "none"]

\* pub fn object_id_as_string
object_id_as_string(id) == serialize_str(to_hex(id))

opt_object_id_as_string_empty_for_none(id) ==
    IF id.tag = "Some" THEN serialize_str(to_hex(id.val)) ELSE serialize_str(<<>>)

\* pub fn opt_object_id_as_string
opt_object_id_as_string(id) ==
    IF id.tag = "Some" THEN serialize_str(to_hex(id.val)) ELSE serialize_none

\* Result::unwrap: a panic on Err
ResultUnwrap(r) == IF r.tag = "Ok" THEN Some(r.val) ELSE [tag |-> "Panic"]

string_id_to_obj_id_unwrap(id) == ResultUnwrap(parse_str(id))

\* pub fn string_id_to_obj_id
string_id_to_obj_id(id) == ResultOk(parse_str(id))

(***************************************************************************)
(* Password hashes.  A PHC string "$argon2id$v=19$m=..,t=..,p=..$salt$out" *)
(* is modelled as the sequence of its '$'-separated fields; a field is a   *)
(* record [k, v] giving its lexical class and its content.  The empty      *)
(* string is the empty sequence.                                           *)
(***************************************************************************)
SegEmpty == [k |-> "empty", v |-> <<>>]
SegIdent(a) == [k |-> "ident", v |-> <<a>>]
SegVersion(n) == [k |-> "version", v |-> <<n>>]
SegParams(m, t, p) == [k |-> "params", v |-> <<m, t, p>>]
SegB64(x) == [k |-> "b64", v |-> x]
SegJunk == [k |-> "junk", v |-> <<>>]

\* Argon2::default(): Argon2id, version 0x13, m = 19456 KiB, t = 2, p = 1
DefaultAlgorithm == "argon2id"
DefaultVersion == <<19>>
DefaultParams == <<19456, 2, 1>>

\* The Argon2 function, collision-free: its output names all of its inputs.
argon2(alg, ver, params, salt, password) ==
    <<"out", alg, ver[1], params[1], params[2], params[3], salt, password>>

\* PasswordHash::to_string of what Argon2::hash_password returns
phc_string(alg, ver, params, salt, out) ==
    <<SegEmpty, SegIdent(alg), SegVersion(ver[1]),
      SegParams(params[1], params[2], params[3]), SegB64(<<"salt", salt>>), SegB64(out)>>

\* PasswordHash::new: the fields by position; version and params are optional
PasswordHash_new(s) ==
    IF s = <<>> THEN Err("PhcStringField")
    ELSE IF s[1].k # "empty" THEN Err("PhcStringField")
    ELSE IF Len(s) < 2 \/ s[2].k # "ident" THEN Err("PhcStringField")
    ELSE
      LET hasVer == Len(s) >= 3 /\ s[3].k = "version"
          iPar == IF hasVer THEN 4 ELSE 3
          hasPar == Len(s) >= iPar /\ s[iPar].k = "params"
          iSalt == IF hasPar THEN iPar + 1 ELSE iPar
          iHash == iSalt + 1
      IN  IF hasVer /\ s[3].v[1] < 0 THEN Err("Version")
          ELSE IF Len(s) >= iSalt /\ s[iSalt].k # "b64" THEN Err("SaltInvalid")
          ELSE IF Len(s) >= iHash /\ s[iHash].k # "b64" THEN Err("B64Encoding")
          ELSE IF Len(s) > iHash THEN Err("PhcStringTrailingData")
          ELSE Ok([algorithm |-> s[2].v[1],
                   version |-> IF hasVer THEN Some(s[3].v) ELSE None,
                   params |-> IF hasPar THEN Some(s[iPar].v) ELSE None,
                   salt |-> IF Len(s) >= iSalt THEN Some(s[iSalt].v) ELSE None,
                   hash |-> IF Len(s) >= iHash THEN Some(s[iHash].v) ELSE None])

\* PasswordVerifier::verify_password of Argon2: recompute with the hash's own
\* algorithm, version, parameters and salt, and compare the outputs
Argon2_verify_password(password, parsed) ==
    IF parsed.salt.tag = "Some" /\ parsed.hash.tag = "Some"
    THEN LET ver == IF parsed.version.tag = "Some" THEN parsed.version.val ELSE DefaultVersion
             par == IF parsed.params.tag = "Some" THEN parsed.params.val ELSE DefaultParams
         IN  IF parsed.algorithm \notin {"argon2d", "argon2i", "argon2id"} THEN Err("Algorithm")
             ELSE IF ver[1] \notin {16, 19} THEN Err("Version")
             ELSE IF par[2] < 1 \/ par[3] < 1 \/ par[1] < 8 * par[3] THEN Err("ParamsInvalid")
             ELSE IF parsed.salt.val[1] # "salt" THEN Err("SaltInvalid")
             ELSE IF parsed.hash.val =
                       argon2(parsed.algorithm, ver, par, parsed.salt.val[2], password)
                  THEN Ok("verified")
                  ELSE Err("Password")
    ELSE Err("Password")

hash_password_of_empty(password, salt) ==
    Ok(phc_string(DefaultAlgorithm, DefaultVersion, DefaultParams, salt,
                  argon2(DefaultAlgorithm, DefaultVersion, DefaultParams, salt, "")))

\* pub fn hash_password, lines 38-43: the hash of the password under the drawn salt
hash_password(password, salt) ==
    Ok(phc_string(DefaultAlgorithm, DefaultVersion, DefaultParams, salt,
                  argon2(DefaultAlgorithm, DefaultVersion, DefaultParams, salt, password)))

(***************************************************************************)
(* crate::errors::ServiceError, of which this file builds two variants.    *)
(***************************************************************************)
Unauthorized(msg) == [variant |-> "Unauthorized", msg |-> msg]
Conflict(msg) == [variant |-> "Conflict", msg |-> msg]

(***************************************************************************)
(* Duplicate-key errors.  A mongodb Error is [kind, failure, code,         *)
(* message]; failure is "-" unless kind is "Write".                        *)
(***************************************************************************)
DUPLICATE_KEY == 11000

\* the literal head of the pattern r#"dup key: \{ ([^:]+):"#
DupKeyLiteral == <<"d","u","p"," ","k","e","y",":"," ","{"," ">>

SudahDigunakan == <<" ","s","u","d","a","h"," ","d","i","g","u","n","a","k","a","n">>

Min(S) == CHOOSE x \in S : \A y \in S : x <= y
Max(S) == CHOOSE x \in S : \A y \in S : x >= y

\* the literal matches the message at position i
LiteralAt(m, i) ==
    /\ i + Len(DupKeyLiteral) - 1 <= Len(m)
    /\ SubSeq(m, i, i + Len(DupKeyLiteral) - 1) = DupKeyLiteral

\* the same for ([^:]*): , which also accepts an empty group
GroupLensStar(m, s) ==
    {n \in 0..(Len(m) - s + 1) :
        s + n <= Len(m) /\ m[s + n] = ":" /\ \A j \in s..(s + n - 1) : m[j] # ":"}

\* the lengths n for which ([^:]+): matches at position s: n characters other
\* than ':' and then a ':'
GroupLens(m, s) ==
    {n \in 1..(Len(m) - s) : m[s + n] = ":" /\ \A j \in s..(s + n - 1) : m[j] # ":"}

\* Regex::captures, group 1: the leftmost match, the group taken greedily
captures_group1(m) ==
    LET g(i) == i + Len(DupKeyLiteral)
        starts == {i \in 1..Len(m) : LiteralAt(m, i) /\ GroupLens(m, g(i)) # {}}
    IN  IF starts = {} THEN None
        ELSE LET i == Min(starts)
                 n == Max(GroupLens(m, g(i)))
             IN  Some(SubSeq(m, g(i), g(i) + n - 1))

\* fn extract_duplicate_field
extract_duplicate_field(message) == captures_group1(message)

IsDuplicateKeyCodeOrLegacy(code) == code \in {DUPLICATE_KEY, DUPLICATE_KEY + 1}

\* line 61: write_error.code == 11000
IsDuplicateKeyCode(code) == code = DUPLICATE_KEY

\* line 63: format!("{} sudah digunakan", field)
ConflictFor(field) == Conflict(field \o SudahDigunakan)

(***************************************************************************)
(* SKU generation.  nanoid!(5) draws five symbols of nanoid's default      *)
(* alphabet, the 64 URL-safe symbols.                                      *)
(***************************************************************************)
SkuLen == 5

NanoidSafe == <<"_", "-">> \o Digits \o LowerAlpha \o UpperAlpha

SkuPrefix == <<"S","K","U","-">>

\* line 85: format!("SKU-{}", nanoid!(5).to_uppercase())
format_sku(id) == SkuPrefix \o to_uppercase(id)

(***************************************************************************)
(* The JWT cookie.  A request carries a sequence of cookies [name, value]. *)
(* A token is [wf, sub, exp]: wf tells whether utils::jwt::decode_jwt      *)
(* accepts it, sub and exp are the claims it then yields.                  *)
(***************************************************************************)
\* HttpRequest::cookie: the first cookie of that name
HttpRequest_cookie(req, name) ==
    LET hits == {i \in DOMAIN req : req[i].name = name}
    IN  IF hits = {} THEN None ELSE Some(req[Min(hits)])

\* utils::jwt::decode_jwt
decode_jwt(token) ==
    IF token.wf THEN Ok([claims |-> [sub |-> token.sub, exp |-> token.exp]])
    ELSE Err("InvalidToken")

\* utils::jwt::is_jwt_expired, reading the clock
is_jwt_expired(exp, clock) == exp < clock

MissingCookieError == Unauthorized("Token tidak ditemukan")

DecodeErrorAsExpired == Unauthorized("Token sudah expired")

\* line 97: the error a failed decode is mapped to
DecodeError == Unauthorized("Token tidak valid")

ExpiredError == Unauthorized("Token sudah expired")

ExpiryOutcomeUnchecked(claims, clock) == Ok(claims.sub)

\* lines 99-102: reject an expired token, else return the subject
ExpiryOutcome(claims, clock) ==
    IF is_jwt_expired(claims.exp, clock) THEN Err(ExpiredError) ELSE Ok(claims.sub)

(***************************************************************************)
(* Threads.  A thread is idle, or runs one call: pc is the step it is at,  *)
(* arg the call's argument (for hash_password and generate_random_sku,     *)
(* with the entropy the call is going to draw), loc its local variables,   *)
(* tr the library operations performed so far, time the clock value read   *)
(* by the expiry check (-1: not read), origin the hash_password call whose *)
(* result a verify_password call was given (None: none).                   *)
(***************************************************************************)
Idle ==
    [pc |-> "idle", fn |-> "none", arg |-> <<>>, origin |-> None,
     loc |-> <<>>, tr |-> <<>>, time |-> -1, res |-> None]

FirstPc(fn) ==
    CASE fn = "object_id_as_string" -> "serialize"
      [] fn = "opt_object_id_as_string" -> "serialize"
      [] fn = "string_id_to_obj_id" -> "parse_str"
      [] fn = "hash_password" -> "salt"
      [] fn = "verify_password" -> "parse"
      [] fn = "handle_duplicate_key_error" -> "match"
      [] fn = "generate_random_sku" -> "nanoid"
      [] fn = "extract_user_id_from_cookie" -> "cookie"

Start(fn, arg, origin) ==
    [pc |-> FirstPc(fn), fn |-> fn, arg |-> arg, origin |-> origin,
     loc |-> <<>>, tr |-> <<>>, time |-> -1, res |-> None]

Finish(r, res, op) == [r EXCEPT !.pc = "done", !.res = res, !.tr = Append(@, op)]

Goto(r, pc, loc, op) == [r EXCEPT !.pc = pc, !.loc = loc, !.tr = Append(@, op)]

Running(r, fn) == r.fn = fn /\ r.pc \notin {"idle", "done"}

\* lines 15-20
object_id_as_string_step(r, env) ==
    Finish(r, object_id_as_string(r.arg), "serialize_str")

\* lines 22-30
opt_object_id_as_string_step(r, env) ==
    LET out == opt_object_id_as_string(r.arg)
    IN  Finish(r, out, IF out.tag = "none" THEN "serialize_none" ELSE "serialize_str")

\* lines 32-34
string_id_to_obj_id_step(r, env) ==
    Finish(r, string_id_to_obj_id(r.arg), "ObjectId::parse_str")

\* lines 36-44
hash_password_step(r, env) ==
    IF r.pc = "salt"
    THEN Goto(r, "hash", [salt |-> r.arg.entropy], "SaltString::generate")
    ELSE Finish(r, hash_password(r.arg.password, r.loc.salt), "Argon2::hash_password")

OnUnparsableHashAccept == TRUE

\* line 53: the else branch of verify_password
OnUnparsableHash == FALSE

\* lines 46-55
verify_password_step(r, env) ==
    IF r.pc = "parse"
    THEN LET parsed_hash == PasswordHash_new(r.arg.password_hash)
         IN  IF parsed_hash.tag = "Ok"
             THEN Goto(r, "verify", [parsed_hash |-> parsed_hash.val], "PasswordHash::new")
             ELSE Finish(r, OnUnparsableHash, "PasswordHash::new")
    ELSE Finish(r, Argon2_verify_password(r.arg.password, r.loc.parsed_hash).tag = "Ok",
                "Argon2::verify_password")

\* lines 57-74; the regex step keeps extract_duplicate_field's result in loc
handle_duplicate_key_error_step(r, env) ==
    IF r.pc = "match"
    THEN IF r.arg.kind = "Write" /\ r.arg.failure = "WriteError"
                                 /\ IsDuplicateKeyCode(r.arg.code)
         THEN Goto(r, "regex", <<>>, "match")
         ELSE Finish(r, None, "match")
    ELSE LET field == extract_duplicate_field(r.arg.message)
         IN  [Finish(r, IF field.tag = "Some" THEN Some(ConflictFor(field.val)) ELSE None,
                     "extract_duplicate_field")
                EXCEPT !.loc = [field |-> field]]

\* lines 83-86
generate_random_sku_step(r, env) ==
    IF r.pc = "nanoid"
    THEN Goto(r, "format", [id |-> r.arg.entropy], "nanoid")
    ELSE Finish(r, format_sku(r.loc.id), "format")

\* lines 88-103
extract_user_id_from_cookie_step(r, env) ==
    CASE r.pc = "cookie" ->
           LET cookie == HttpRequest_cookie(r.arg, "auth_token")
           IN  IF cookie.tag = "None"
               THEN Finish(r, Err(MissingCookieError), "cookie")
               ELSE Goto(r, "decode", [token |-> cookie.val.value], "cookie")
      [] r.pc = "decode" ->
           LET decoded == decode_jwt(r.loc.token)
           IN  IF decoded.tag = "Err"
               THEN Finish(r, Err(DecodeError), "decode_jwt")
               ELSE Goto(r, "expiry", [token |-> r.loc.token, decoded |-> decoded.val],
                         "decode_jwt")
      [] r.pc = "expiry" ->
           [Finish(r, ExpiryOutcome(r.loc.decoded.claims, env.now), "is_jwt_expired")
              EXCEPT !.time = env.now]

\* one step of the call r in the environment env = [now, logger]
step_of(r, env) ==
    CASE r.fn = "object_id_as_string" -> object_id_as_string_step(r, env)
      [] r.fn = "opt_object_id_as_string" -> opt_object_id_as_string_step(r, env)
      [] r.fn = "string_id_to_obj_id" -> string_id_to_obj_id_step(r, env)
      [] r.fn = "hash_password" -> hash_password_step(r, env)
      [] r.fn = "verify_password" -> verify_password_step(r, env)
      [] r.fn = "handle_duplicate_key_error" -> handle_duplicate_key_error_step(r, env)
      [] r.fn = "generate_random_sku" -> generate_random_sku_step(r, env)
      [] r.fn = "extract_user_id_from_cookie" -> extract_user_id_from_cookie_step(r, env)

EmittedAlsoByVerify(r) ==
    IF \/ r.fn = "handle_duplicate_key_error" /\ r.pc = "match"
             /\ r.arg.kind = "Write" /\ r.arg.failure # "WriteError"
       \/ r.fn = "verify_password" /\ r.pc = "parse"
             /\ PasswordHash_new(r.arg.password_hash).tag = "Err"
    THEN <<"warn">> ELSE <<>>

\* lines 67-69: the log::warn! of the step r is about to take
Emitted(r) ==
    IF r.fn = "handle_duplicate_key_error" /\ r.pc = "match"
          /\ r.arg.kind = "Write" /\ r.arg.failure # "WriteError"
    THEN <<"warn">> ELSE <<>>

\* the process-wide state the step r is about to take touches: the clock
\* (is_jwt_expired), the OS entropy source (OsRng, nanoid), the logger
Touched(t, r) ==
    LET at(l, m) == {[t |-> t, fn |-> r.fn, loc |-> l, mode |-> m]}
    IN  (IF r.fn = "extract_user_id_from_cookie" /\ r.pc = "expiry"
         THEN at("clock", "read") ELSE {})
        \cup (IF \/ r.fn = "hash_password" /\ r.pc = "salt"
                 \/ r.fn = "generate_random_sku" /\ r.pc = "nanoid"
              THEN at("entropy", "draw") ELSE {})
        \cup (IF Emitted(r) # <<>> THEN at("logger", "write") ELSE {})

Env == [now |-> now, logger |-> logger]

\* thread t takes the next step of its call
Advance(t) ==
    /\ th' = [th EXCEPT ![t] = step_of(th[t], Env)]
    /\ logger' = logger \o [i \in DOMAIN Emitted(th[t]) |-> [t |-> t, level |-> Emitted(th[t])[i]]]
    /\ access' = access \cup Touched(t, th[t])
    /\ UNCHANGED now

(***************************************************************************)
(* The inputs the calls are drawn from.                                    *)
(***************************************************************************)
ByteSamples == <<171, 0, 255, 9, 160, 16>>
SampleBytes == {ByteSamples[i] : i \in 1..NumByteSamples}

\* ObjectIds: one byte value throughout, but for one position
Ids ==
    {[i \in 1..OidLen |-> IF i = k THEN b2 ELSE b1] :
        b1 \in SampleBytes, b2 \in SampleBytes, k \in 1..OidLen}

PerturbPos == {1, 2, 2 * OidLen - 1, 2 * OidLen}
BadChars == {"g", "G", " ", "-"}

\* the hex form of an id, as is and damaged: other case, a foreign character,
\* too short, too long
Perturbed(h) ==
    {h, to_uppercase(h), <<>>, SubSeq(h, 1, Len(h) - 1), SubSeq(h, 1, Len(h) - 2),
     h \o <<"0">>, h \o <<"0", "0">>}
    \cup {[h EXCEPT ![i] = UpperChar(@)] : i \in PerturbPos}
    \cup {[h EXCEPT ![i] = c] : i \in PerturbPos, c \in BadChars}

OidStrings == UNION {Perturbed(to_hex(id)) : id \in Ids}

Passwords == {"", "hunter2", "Hunter2"}
SaltSamples == <<"c2FsdEE", "c2FsdEI", "c2FsdEM", "c2FsdEQ">>
Salts == {SaltSamples[i] : i \in 1..NumSalts}

IssuedHashes == {hash_password(p, s).val : p \in Passwords, s \in Salts}

\* a hash string damaged: a field dropped, replaced or added
Damaged(h) ==
    {SubSeq(h, 1, n) : n \in 0..Len(h)}
    \cup {Tail(h), h \o <<SegB64(<<"salt", "x">>)>>, h \o <<SegJunk>>,
          <<h[1], h[2]>> \o SubSeq(h, 4, Len(h)),
          <<h[1], h[2], h[3]>> \o SubSeq(h, 5, Len(h)),
          <<h[1], h[2]>> \o SubSeq(h, 5, Len(h))}
    \cup {[h EXCEPT ![2] = SegIdent(a)] : a \in {"argon2i", "pbkdf2-sha256"}}
    \cup {[h EXCEPT ![2] = SegJunk], [h EXCEPT ![5] = SegJunk], [h EXCEPT ![6] = SegJunk]}
    \cup {[h EXCEPT ![3] = SegVersion(v)] : v \in {16, 7, -1}}
    \cup {[h EXCEPT ![4] = SegParams(m, 2, p)] : m \in {8, 4}, p \in {1, 0}}

HashStrings == IssuedHashes \cup UNION {Damaged(h) : h \in IssuedHashes}

\* message texts: up to MaxFrags pieces, in any order
Frags ==
    {DupKeyLiteral, <<"d","u","p"," ","k","e","y",":"," ","{">>, <<":">>, <<" ">>, <<"a">>, <<"e","m","a","i","l">>}

RECURSIVE MessagesOf(_)
MessagesOf(n) ==
    IF n = 0 THEN {<<>>}
    ELSE MessagesOf(n - 1) \cup {m \o f : m \in MessagesOf(n - 1), f \in Frags}

CompoundKeyMessage == <<"d","u","p"," ","k","e","y",":"," ","{"," ","a",":"," ","1",","," ","b",":"," ","2"," ","}">>

ServerMessage == <<"E","1","1","0","0","0"," ","i","n","d","e","x",":"," ","e","m","a","i","l","_","1"," ","d","u","p"," ","k","e","y",":"," ","{"," ","e","m","a","i","l",":"," ","\"","a","@","b",".","c","\""," ","}">>

SecondOccurrenceMessage == <<"d","u","p"," ","k","e","y",":"," ","{"," ",":"," ","d","u","p"," ","k","e","y",":"," ","{"," ","b",":"," ","1">>

Messages ==
    MessagesOf(MaxFrags) \cup {CompoundKeyMessage, ServerMessage, SecondOccurrenceMessage}

Codes == {DUPLICATE_KEY, DUPLICATE_KEY + 1, 0, 121}

Errors ==
    {[kind |-> "Write", failure |-> "WriteError", code |-> c, message |-> m] :
        c \in {DUPLICATE_KEY}, m \in Messages}
    \cup {[kind |-> k[1], failure |-> k[2], code |-> c, message |-> m] :
            k \in {<<"Write", "WriteError">>, <<"Write", "WriteConcernError">>,
                   <<"Command", "-">>, <<"Io", "-">>},
            c \in Codes, m \in {CompoundKeyMessage, ServerMessage, <<>>}}

SkuSample == {c \in Range(NanoidSafe) : c \in {"_", "-", "7", "x", "D"}}
SkuDraws == [1..SkuLen -> SkuSample]

Tokens == [wf : BOOLEAN, sub : {"user-1", "user-2"}, exp : 0..(MaxClock + 1)]
Cookies ==
    [name : {"auth_token"}, value : Tokens]
    \cup [name : {"session", "AUTH_TOKEN"}, value : {[wf |-> TRUE, sub |-> "user-2", exp |-> MaxClock + 1]}]
Requests == {<<>>} \cup {<<c>> : c \in Cookies} \cup {<<c, d>> : c \in Cookies, d \in Cookies}

Call(fn, arg) == [fn |-> fn, arg |-> arg]

SoloCalls ==
    {Call("object_id_as_string", id) : id \in Ids}
    \cup {Call("opt_object_id_as_string", id) : id \in {None} \cup {Some(i) : i \in Ids}}
    \cup {Call("string_id_to_obj_id", s) : s \in OidStrings}
    \cup {Call("hash_password", [password |-> p, entropy |-> s]) : p \in Passwords, s \in Salts}
    \cup {Call("verify_password", [password |-> p, password_hash |-> h]) :
            p \in Passwords, h \in HashStrings}
    \cup {Call("handle_duplicate_key_error", e) : e \in Errors}
    \cup {Call("generate_random_sku", [entropy |-> d]) : d \in SkuDraws}
    \cup {Call("extract_user_id_from_cookie", q) : q \in Requests}

(***************************************************************************)
(* Actions.                                                                *)
(***************************************************************************)
Init ==
    /\ th = [t \in Threads |-> Idle]
    /\ now = 0
    /\ logger = <<>>
    /\ access = {}

\* the program calls one of the functions, on thread 1
CallFn ==
    /\ th[1].pc = "idle"
    /\ \E c \in SoloCalls : th' = [th EXCEPT ![1] = Start(c.fn, c.arg, None)]
    /\ UNCHANGED <<now, logger, access>>

\* a thread that has hashed a password verifies a password against that hash
VerifyIssued ==
    \E t \in Threads, q \in Passwords :
        /\ th[t].pc = "done" /\ th[t].fn = "hash_password" /\ th[t].res.tag = "Ok"
        /\ th' = [th EXCEPT ![t] =
                    Start("verify_password",
                          [password |-> q, password_hash |-> th[t].res.val],
                          Some(th[t].arg))]
        /\ UNCHANGED <<now, logger, access>>

\* time passes
Tick ==
    /\ now < MaxClock
    /\ now' = now + 1
    /\ UNCHANGED <<th, logger, access>>

Step_object_id_as_string ==
    \E t \in Threads : Running(th[t], "object_id_as_string") /\ Advance(t)

Step_opt_object_id_as_string ==
    \E t \in Threads : Running(th[t], "opt_object_id_as_string") /\ Advance(t)

Step_string_id_to_obj_id ==
    \E t \in Threads : Running(th[t], "string_id_to_obj_id") /\ Advance(t)

Step_hash_password ==
    \E t \in Threads : Running(th[t], "hash_password") /\ Advance(t)

Step_verify_password ==
    \E t \in Threads : Running(th[t], "verify_password") /\ Advance(t)

Step_handle_duplicate_key_error ==
    \E t \in Threads : Running(th[t], "handle_duplicate_key_error") /\ Advance(t)

Step_generate_random_sku ==
    \E t \in Threads : Running(th[t], "generate_random_sku") /\ Advance(t)

Step_extract_user_id_from_cookie ==
    \E t \in Threads : Running(th[t], "extract_user_id_from_cookie") /\ Advance(t)

Steps ==
    \/ Step_object_id_as_string
    \/ Step_opt_object_id_as_string
    \/ Step_string_id_to_obj_id
    \/ Step_hash_password
    \/ Step_verify_password
    \/ Step_handle_duplicate_key_error
    \/ Step_generate_random_sku
    \/ Step_extract_user_id_from_cookie

Next == CallFn \/ VerifyIssued \/ Tick \/ Steps

\* one call at a time, on every input
Spec == Init /\ [][Next]_vars

(***************************************************************************)
(* Several calls at once: every thread runs a call, the steps interleave.  *)
(***************************************************************************)
ConcId == [i \in 1..OidLen |-> ByteSamples[1]]
ConcHash == hash_password("hunter2", SaltSamples[1]).val
ConcToken(wf) == <<[name |-> "auth_token", value |-> [wf |-> wf, sub |-> "user-1", exp |-> 1]]>>

ConcCalls ==
    {Call("object_id_as_string", ConcId),
     Call("opt_object_id_as_string", None),
     Call("string_id_to_obj_id", to_uppercase(to_hex(ConcId))),
     Call("hash_password", [password |-> "hunter2", entropy |-> SaltSamples[1]]),
     Call("verify_password", [password |-> "hunter2", password_hash |-> ConcHash]),
     Call("verify_password", [password |-> "hunter2", password_hash |-> <<>>]),
     Call("handle_duplicate_key_error",
          [kind |-> "Write", failure |-> "WriteError", code |-> DUPLICATE_KEY,
           message |-> CompoundKeyMessage]),
     Call("handle_duplicate_key_error",
          [kind |-> "Write", failure |-> "WriteConcernError", code |-> 64,
           message |-> <<>>]),
     Call("generate_random_sku", [entropy |-> <<"x", "7", "D", "2", "f">>]),
     Call("extract_user_id_from_cookie", <<>>),
     Call("extract_user_id_from_cookie", ConcToken(FALSE)),
     Call("extract_user_id_from_cookie", ConcToken(TRUE))}

\* a thread starts a call
Spawn ==
    \E t \in Threads, c \in ConcCalls :
        /\ th[t].pc = "idle"
        /\ th' = [th EXCEPT ![t] = Start(c.fn, c.arg, None)]
        /\ UNCHANGED <<now, logger, access>>

NextConc == Spawn \/ Tick \/ Steps

SpecConc == Init /\ [][NextConc]_vars

(***************************************************************************)
(* Properties.                                                             *)
(***************************************************************************)
Done(t, fn) == th[t].fn = fn /\ th[t].pc = "done"

\* the call r run to completion on its own, with the clock at the value r read
RECURSIVE run_alone(_, _)
run_alone(r, env) == IF r.pc = "done" THEN r ELSE run_alone(step_of(r, env), env)

Alone(r) == run_alone(Start(r.fn, r.arg, r.origin), [now |-> r.time, logger |-> <<>>])

AuthCookies(req) == {i \in DOMAIN req : req[i].name = "auth_token"}

\* the value of the request's auth_token cookie (the first, if several)
AuthValue(req) == req[Min(AuthCookies(req))].value

(* C1: extract_user_id_from_cookie returns Ok exactly when the request has  *)
(* an "auth_token" cookie, decode_jwt succeeds on its value and the token   *)
(* is not expired at the time of the check; the Ok value is the decoded     *)
(* token's sub claim.                                                       *)
C1_OkIffCookieDecodedFresh ==
    \A t \in Threads : Done(t, "extract_user_id_from_cookie") =>
        LET req == th[t].arg
            good == /\ AuthCookies(req) # {}
                    /\ decode_jwt(AuthValue(req)).tag = "Ok"
                    /\ ~is_jwt_expired(decode_jwt(AuthValue(req)).val.claims.exp, th[t].time)
        IN  /\ th[t].res.tag \in {"Ok", "Err"}
            /\ (th[t].res.tag = "Ok") <=> good
            /\ th[t].res.tag = "Ok" => th[t].res.val = AuthValue(req).sub

C1_Witness ==
    \E t \in Threads :
        /\ Done(t, "extract_user_id_from_cookie")
        /\ Len(th[t].arg) = 2 /\ th[t].arg[1].name = "session"
        /\ th[t].res = Ok("user-1")
        /\ th[t].time = 1 /\ AuthValue(th[t].arg).exp = 1

(* C2: every failure of extract_user_id_from_cookie is Unauthorized, with   *)
(* the message of the first failing check (cookie, decoding, expiry), and   *)
(* no later check is run.                                                   *)
C2_FirstFailureDecides ==
    \A t \in Threads :
        (Done(t, "extract_user_id_from_cookie") /\ th[t].res.tag = "Err") =>
            LET req == th[t].arg
                e == th[t].res.err
            IN  /\ e.variant = "Unauthorized"
                /\ IF AuthCookies(req) = {}
                   THEN e.msg = "Token tidak ditemukan" /\ th[t].tr = <<"cookie">>
                   ELSE IF decode_jwt(AuthValue(req)).tag = "Err"
                   THEN e.msg = "Token tidak valid" /\ th[t].tr = <<"cookie", "decode_jwt">>
                   ELSE /\ e.msg = "Token sudah expired"
                        /\ th[t].tr = <<"cookie", "decode_jwt", "is_jwt_expired">>
                        /\ AuthValue(req).exp < th[t].time

C2_Witness ==
    \E t \in Threads :
        /\ Done(t, "extract_user_id_from_cookie")
        /\ th[t].res = Err(Unauthorized("Token tidak valid"))
        /\ AuthValue(th[t].arg).exp < now
        /\ th[t].tr = <<"cookie", "decode_jwt">>

(* C3: handle_duplicate_key_error returns Some(Conflict("<field> sudah      *)
(* digunakan")) exactly for a Write / WriteError of code 11000 whose        *)
(* message names a duplicate field, and None for every other error.         *)
C3_ConflictIffDuplicateKey ==
    \A t \in Threads : Done(t, "handle_duplicate_key_error") =>
        LET e == th[t].arg
            field == extract_duplicate_field(e.message)
            dup == /\ e.kind = "Write" /\ e.failure = "WriteError"
                   /\ e.code = 11000 /\ field.tag = "Some"
        IN  IF dup
            THEN th[t].res = Some([variant |-> "Conflict", msg |-> field.val \o SudahDigunakan])
            ELSE th[t].res = None

C3_Witness ==
    \E t \in Threads :
        /\ Done(t, "handle_duplicate_key_error")
        /\ th[t].arg.message = CompoundKeyMessage
        /\ th[t].res = Some(Conflict(<<"a">> \o SudahDigunakan))

Independent == {"string_id_to_obj_id", "verify_password",
                "handle_duplicate_key_error", "extract_user_id_from_cookie"}

FinishedAlone(t) == th[t].pc = "done" => th[t].res = Alone(th[t]).res

\* the accesses of two different calls, both of the four functions, to one place
SharedAccesses ==
    {p \in access \X access :
        /\ p[1].t # p[2].t /\ p[1].loc = p[2].loc
        /\ p[1].fn \in Independent /\ p[2].fn \in Independent}

C5_PasswordRoundTrip ==
    /\ \A t \in Threads : Done(t, "hash_password") => th[t].res.tag = "Ok"
    /\ \A t \in Threads :
          (Done(t, "verify_password") /\ th[t].origin.tag = "Some") =>
              th[t].res = (th[t].arg.password = th[t].origin.val.password)

C5_Witness ==
    \E t \in Threads :
        /\ Done(t, "verify_password") /\ th[t].origin.tag = "Some"
        /\ th[t].origin.val.entropy = SaltSamples[2]
        /\ th[t].arg.password = "hunter2"
        /\ th[t].res = TRUE

(* C6: every SKU is "SKU-" followed by exactly five characters, each an     *)
(* uppercase ASCII letter or a digit.                                       *)
C6_SkuIsUppercaseAlphanumeric ==
    \A t \in Threads : Done(t, "generate_random_sku") =>
        LET sku == th[t].res
        IN  /\ Len(sku) = 9
            /\ SubSeq(sku, 1, 4) = <<"S", "K", "U", "-">>
            /\ \A i \in 5..9 : sku[i] \in Range(UpperAlpha) \cup Range(Digits)

(* C7: verify_password always returns a boolean; false, without attempting  *)
(* verification, when the hash string cannot be parsed (the empty string    *)
(* included); true only when parsing and the Argon2 verification succeeded. *)
C7_VerifyIsTotal ==
    \A t \in Threads : th[t].fn = "verify_password" =>
        LET parsed == PasswordHash_new(th[t].arg.password_hash)
        IN  /\ th[t].pc \in {"parse", "verify", "done"}
            /\ th[t].pc = "done" =>
                 /\ th[t].res \in BOOLEAN
                 /\ parsed.tag = "Err" =>
                      th[t].res = FALSE /\ th[t].tr = <<"PasswordHash::new">>
                 /\ th[t].arg.password_hash = <<>> => th[t].res = FALSE
                 /\ th[t].res = TRUE =>
                      /\ parsed.tag = "Ok"
                      /\ Argon2_verify_password(th[t].arg.password, parsed.val).tag = "Ok"
                      /\ th[t].tr = <<"PasswordHash::new", "Argon2::verify_password">>

C7_Witness ==
    \E t \in Threads :
        /\ Done(t, "verify_password")
        /\ th[t].arg.password_hash = <<>>
        /\ th[t].res = FALSE
        /\ th[t].tr = <<"PasswordHash::new">>

\* the positions where "dup key: { " occurs followed by one or more characters
\* other than ':' and then a ':'
Occurrences(m) ==
    {i \in 1..Len(m) :
        /\ LiteralAt(m, i)
        /\ \E j \in (i + 12)..Len(m) : m[j] = ":" /\ \A k \in (i + 11)..(j - 1) : m[k] # ":"}

(* C8: extract_duplicate_field returns Some(f) exactly when the message has *)
(* "dup key: { " followed by one or more non-colon characters and a colon;  *)
(* f is that run for the leftmost such occurrence, never empty and without  *)
(* ':'; for a compound key only the first field name is returned.           *)
C8_FirstFieldOfLeftmostMatch ==
    \A t \in Threads :
        (Done(t, "handle_duplicate_key_error") /\ Len(th[t].tr) = 2) =>
            LET m == th[t].arg.message
                f == th[t].loc.field
            IN  /\ (f.tag = "Some") <=> (Occurrences(m) # {})
                /\ f.tag # "Some" => f = None
                /\ f.tag = "Some" =>
                     LET i == Min(Occurrences(m))
                     IN  /\ f.val # <<>>
                         /\ ":" \notin Range(f.val)
                         /\ Len(m) >= i + 11 + Len(f.val)
                         /\ SubSeq(m, i + 11, i + 10 + Len(f.val)) = f.val
                         /\ m[i + 11 + Len(f.val)] = ":"
                /\ m = CompoundKeyMessage => f = Some(<<"a">>)

C8_Witness ==
    \E t \in Threads :
        /\ Done(t, "handle_duplicate_key_error")
        /\ th[t].arg.message = SecondOccurrenceMessage
        /\ Len(th[t].tr) = 2
        /\ th[t].loc.field = Some(<<"b">>)

HexChars == {"0","1","2","3","4","5","6","7","8","9",
             "a","b","c","d","e","f","A","B","C","D","E","F"}

(* C9: string_id_to_obj_id gives back the id whose hex form it is given,    *)
(* gives None (nothing else) for a string that is not 24 hex digits, and    *)
(* the hex form of an accepted string's id is that string in lower case.    *)
C9_ObjectIdRoundTrip ==
    \A t \in Threads : Done(t, "string_id_to_obj_id") =>
        LET str == th[t].arg
            valid == Len(str) = 24 /\ \A i \in DOMAIN str : str[i] \in HexChars
        IN  /\ th[t].res.tag \in {"Some", "None"}
            /\ ~valid => th[t].res = None
            /\ th[t].res.tag = "Some" => to_hex(th[t].res.val) = to_lowercase(str)
            /\ \A id \in Ids : object_id_as_string(id).val = str => th[t].res = Some(id)

C9_Witness ==
    \E t \in Threads :
        /\ Done(t, "string_id_to_obj_id")
        /\ th[t].res.tag = "Some"
        /\ th[t].res.val \in Ids
        /\ th[t].arg # to_lowercase(th[t].arg)
        /\ th[t].arg # to_uppercase(th[t].arg)

(* C10: opt_object_id_as_string serializes a present id exactly as          *)
(* object_id_as_string does (its hex form) and an absent id as none.        *)
C10_OptAgreesWithPlain ==
    /\ \A t \in Threads : Done(t, "opt_object_id_as_string") =>
          IF th[t].arg.tag = "Some"
          THEN /\ th[t].res = object_id_as_string(th[t].arg.val)
               /\ th[t].res.tag = "str" /\ Len(th[t].res.val) = 24
          ELSE th[t].res.tag = "none" /\ th[t].tr = <<"serialize_none">>
    /\ \A t \in Threads : Done(t, "object_id_as_string") =>
          th[t].res = [tag |-> "str", val |-> to_hex(th[t].arg)]

C10_Witness ==
    \E t \in Threads :
        /\ Done(t, "opt_object_id_as_string")
        /\ th[t].arg.tag = "Some"
        /\ th[t].arg.val[1] # th[t].arg.val[2]
        /\ th[t].res.tag = "str"

=============================================================================
